---- MODULE Spec2Model ----
(***************************************************************************)
(* load_urdf_with_yourdfpy (sim_web_visualizer/parser/urdf.py): the        *)
(* fixed-joint collapse (joint ordering loop, root/pose map construction)  *)
(* and the asset-resolution loop that addresses every emitted geometry by  *)
(* "{canonical link}/{index}".                                             *)
(*                                                                         *)
(* Rigid transforms (4x4 numpy arrays) are modelled as words over opaque   *)
(* generators: eye is the empty word and `@` is concatenation, so that two *)
(* poses are equal only if they are the same ordered product.  Link names  *)
(* are numbers: 0 is the base link, link j is the child of joint j.        *)
(***************************************************************************)
EXTENDS Integers, Sequences, FiniteSets, TLC

\* Bounds of the model.
NumJoints == 3
MaxVisuals == 2
MaxSub == 2

Joints == 1..NumJoints
Links == 0..NumJoints
\* A link name that no link of the document carries (a dangling parent).
NoLink == NumJoints + 1

----------------------------------------------------------------------------
\* Rigid transforms.

Gen(k, a, b) == [k |-> k, a |-> a, b |-> b]
eye == << >>
MatMul(x, y) == x \o y
\* transforms3d.euler.euler2mat(np.pi / 2, 0, 0), as a homogeneous factor.
Rx90 == << Gen("rx90", 0, 0) >>
\* The origin of a visual without an <origin> element.
None == << Gen("None", 0, 0) >>

\* dict[key] = value
MapSet(m, key, v) == [x \in (DOMAIN m) \cup {key} |-> IF x = key THEN v ELSE m[x]]

SeqToSet(s) == {s[i] : i \in 1..Len(s)}

----------------------------------------------------------------------------
\* The collapse phase as functions of the parsed document r.

\* Line 39 (mutant): a joint is taken whether or not its parent is resolved.
ParentResolvedAlways(r, st, joint_name) == TRUE

\* Line 39: robot.joint_map[joint_name].parent in _link_cache
ParentResolved(r, st, joint_name) ==
  r.joint_map[joint_name].parent \in SeqToSet(st.cache)

\* One iteration of the for loop of the joint ordering.
ScanJoint(r, st, joint_name) ==
  IF joint_name \in SeqToSet(st.sorted)
  THEN st
  ELSE IF ParentResolved(r, st, joint_name)
       THEN [cache |-> Append(st.cache, r.joint_map[joint_name].child),
             sorted |-> Append(st.sorted, joint_name)]
       ELSE st

\* Line 51 (mutant): the child is mapped to its parent, not to the parent's root.
FixedRootIsParent(m, parent) == parent

\* Line 51: link_root_map[parent]
FixedRoot(m, parent) == m.root[parent]

\* Line 52 (mutant): the factors are swapped.
FixedPoseSwapped(m, parent, origin) == MatMul(origin, m.pose[parent])

\* Line 52: link_pose_map[parent] @ joint_info.origin
FixedPose(m, parent, origin) == MatMul(m.pose[parent], origin)

\* Line 54 (mutant): a movable joint's child joins its parent's group.
MovableRootFolds(m, parent, child) ==
  IF parent \in DOMAIN m.root THEN m.root[parent] ELSE child

\* Line 54: child
MovableRoot(m, parent, child) == child

\* Line 55 (mutant): the joint origin is kept as the pose of a movable child.
MovablePoseKeepsOrigin(origin) == origin

\* Line 55: np.eye(4)
MovablePose(origin) == eye

\* One iteration of the build loop; ok is FALSE once the assertion failed.
BuildJoint(r, m, joint_name) ==
  LET joint_info == r.joint_map[joint_name]
      parent == joint_info.parent
      child == joint_info.child
  IN  IF joint_info.type = "fixed"
      THEN IF parent \in DOMAIN m.root
           THEN [root |-> MapSet(m.root, child, FixedRoot(m, parent)),
                 pose |-> MapSet(m.pose, child, FixedPose(m, parent, joint_info.origin)),
                 ok |-> TRUE]
           ELSE [m EXCEPT !.ok = FALSE]
      ELSE [root |-> MapSet(m.root, child, MovableRoot(m, parent, child)),
            pose |-> MapSet(m.pose, child, MovablePose(joint_info.origin)),
            ok |-> TRUE]

\* link_root_map and link_pose_map before the collapse phase.
InitMaps(r) ==
  [root |-> (r.base_link :> r.base_link), pose |-> (r.base_link :> eye), ok |-> TRUE]

\* The for loop over _joint_unsorted, from position i on.
RECURSIVE ScanPass(_, _, _)
ScanPass(r, st, i) ==
  IF i > Len(r.joint_names)
  THEN st
  ELSE ScanPass(r, ScanJoint(r, st, r.joint_names[i]), i + 1)

\* The while loop of the joint ordering.  It has no exit but "all joints
\* sorted", so this is only evaluated for documents on which it ends.
RECURSIVE SortLoop(_, _)
SortLoop(r, st) ==
  IF Len(st.sorted) < Len(r.joint_names)
  THEN SortLoop(r, ScanPass(r, st, 1))
  ELSE st

\* The build loop over _joint_sorted, from position i on.
RECURSIVE BuildLoop(_, _, _, _)
BuildLoop(r, m, sorted, i) ==
  IF i > Len(sorted) \/ ~m.ok
  THEN m
  ELSE BuildLoop(r, BuildJoint(r, m, sorted[i]), sorted, i + 1)

InitSort(r) == [cache |-> << r.base_link >>, sorted |-> << >>]

\* link_root_map / link_pose_map after the collapse phase.
CollapsePhase(r, collapse_flag) ==
  IF collapse_flag
  THEN BuildLoop(r, InitMaps(r), SortLoop(r, InitSort(r)).sorted, 1)
  ELSE InitMaps(r)

----------------------------------------------------------------------------
\* The asset-resolution loop as functions.

\* visual.origin if visual.origin is not None else np.eye(4)
VisualPose0(visual) == IF visual.origin = None THEN eye ELSE visual.origin

\* Whether visual_pose is the very array stored in visual.origin: the name is
\* rebound to a fresh product only when collapsing.
Aliased(visual, collapse_flag) == visual.origin # None /\ ~collapse_flag

\* KeyError of link_pose_map[link_name]
PoseLookupFails(m, link_name, collapse_flag) ==
  collapse_flag /\ link_name \notin DOMAIN m.pose

VisualPose(visual, m, link_name, collapse_flag) ==
  IF collapse_flag
  THEN MatMul(m.pose[link_name], VisualPose0(visual))
  ELSE VisualPose0(visual)

\* Pose appended for sub-mesh `sub` of a multi-geometry file, per format.
ObjSubPose(visual_pose, graph, sub) == MatMul(visual_pose, graph[sub])
DaeSubPose(visual_pose, graph, sub) == visual_pose
GlbSubPose(visual_pose, graph, sub) == MatMul(visual_pose, graph[sub])

Failed == [ok |-> FALSE, geometries |-> << >>, poses |-> << >>, rotated |-> FALSE]
One(kind, pose, rotated) ==
  [ok |-> TRUE, geometries |-> << kind >>, poses |-> << pose >>, rotated |-> rotated]

\* The geometry dispatch: the geometries and poses lists of one visual (mats
\* has one entry per geometry in every branch and is left out); rotated tells
\* that visual_pose[:3, :3] was overwritten in place.
ResolveGeometry(geom, visual_pose, capsule_flag) ==
  IF geom.kind = "mesh"
  THEN CASE geom.ext = "obj" ->
              IF geom.scene
              THEN [ok |-> TRUE,
                    geometries |-> [i \in 1..Len(geom.graph) |-> "TriangularMeshGeometry"],
                    poses |-> [i \in 1..Len(geom.graph) |-> ObjSubPose(visual_pose, geom.graph, i)],
                    rotated |-> FALSE]
              ELSE One("ObjMeshGeometry", visual_pose, FALSE)
         [] geom.ext = "dae" ->
              IF geom.scene
              THEN [ok |-> TRUE,
                    geometries |-> [i \in 1..Len(geom.graph) |-> "DaeMeshGeometry"],
                    poses |-> [i \in 1..Len(geom.graph) |-> DaeSubPose(visual_pose, geom.graph, i)],
                    rotated |-> FALSE]
              ELSE Failed
         [] geom.ext = "stl" -> One("TriangularMeshGeometry", visual_pose, FALSE)
         [] geom.ext = "glb" ->
              [ok |-> TRUE,
               geometries |-> [i \in 1..Len(geom.graph) |-> "TriangularMeshGeometry"],
               poses |-> [i \in 1..Len(geom.graph) |-> GlbSubPose(visual_pose, geom.graph, i)],
               rotated |-> FALSE]
         [] OTHER -> Failed
  ELSE CASE geom.kind = "sphere" -> One("Sphere", visual_pose, FALSE)
         [] geom.kind = "box" -> One("Box", visual_pose, FALSE)
         [] geom.kind = "cylinder" /\ ~capsule_flag ->
              One("Cylinder", MatMul(visual_pose, Rx90), TRUE)
         [] geom.kind = "cylinder" /\ capsule_flag ->
              One("Capsule", MatMul(visual_pose, Rx90), TRUE)
         [] OTHER -> Failed

\* visual.origin after the visual was processed.
OriginAfter(visual, collapse_flag, rotated) ==
  IF rotated /\ Aliased(visual, collapse_flag)
  THEN MatMul(visual.origin, Rx90)
  ELSE visual.origin

\* f"{meshcat_link_name}/{geom_id}": the index is the text after the last "/",
\* so the key determines both parts.
AssetKey(meshcat_link_name, geom_id) == << meshcat_link_name, geom_id >>

\* link_root_map[link_name] if collapsing, else link_name
MeshcatLinkName(m, link_name, collapse_flag) ==
  IF collapse_flag THEN m.root[link_name] ELSE link_name

\* geom_id of the first entry of a visual.
FirstGeomId(count, name) == IF name \notin DOMAIN count THEN 0 ELSE count[name] + 1

Min(a, b) == IF a < b THEN a ELSE b

\* Line 170 (mutant): the counter keeps geom_id itself.
LastGeomIdNotDecremented(first, n) == first + n

\* Line 170: link_mesh_count[meshcat_link_name] = geom_id - 1, after n entries.
LastGeomId(first, n) == first + n - 1

\* Counting and packing of one visual's entries.
EmitVisual(acc, name, geometries, poses) ==
  LET first == FirstGeomId(acc.count, name)
      n == Min(Len(geometries), Len(poses))
      keys == {AssetKey(name, first + i - 1) : i \in 1..n}
      idx(key) == key[2] - first + 1
  IN  [count |-> MapSet(acc.count, name, LastGeomId(first, n)),
       data |-> [key \in (DOMAIN acc.data) \cup keys |->
                   IF key \in keys THEN geometries[idx(key)] ELSE acc.data[key]],
       pose |-> [key \in (DOMAIN acc.pose) \cup keys |->
                   IF key \in keys THEN poses[idx(key)] ELSE acc.pose[key]]]

EmptyMap == [x \in {} |-> 0]
InitAcc == [count |-> EmptyMap, data |-> EmptyMap, pose |-> EmptyMap]

\* The (link, position) pairs of robot.link_map's visuals, in iteration order.
RECURSIVE VisualsFrom(_, _)
VisualsFrom(r, link_name) ==
  IF link_name > NumJoints
  THEN << >>
  ELSE [i \in 1..Len(r.link_map[link_name]) |-> << link_name, i >>]
         \o VisualsFrom(r, link_name + 1)

VisualList(r) == VisualsFrom(r, 0)

\* Lines 59-170 for the visual at position k of the iteration: whether it
\* was packed, the accumulators after it, its origin after it, and the
\* number of entries packed.
VisualStep(r, m, collapse_flag, capsule_flag, acc, k) ==
  LET link_name == VisualList(r)[k][1]
      visual == r.link_map[link_name][VisualList(r)[k][2]]
  IN  IF PoseLookupFails(m, link_name, collapse_flag)
      THEN [ok |-> FALSE, acc |-> acc, origin |-> visual.origin, n |-> 0,
            name |-> link_name]
      ELSE LET visual_pose == VisualPose(visual, m, link_name, collapse_flag)
               res == ResolveGeometry(visual.geometry, visual_pose, capsule_flag)
               name == MeshcatLinkName(m, link_name, collapse_flag)
           IN  [ok |-> res.ok,
                acc |-> IF res.ok THEN EmitVisual(acc, name, res.geometries, res.poses) ELSE acc,
                origin |-> OriginAfter(visual, collapse_flag, res.rotated),
                n |-> IF res.ok THEN Min(Len(res.geometries), Len(res.poses)) ELSE 0,
                name |-> name]

\* The loop over the visuals from position k on, and the return: the
\* resource in a one-element list, or the empty list if the load raised.
RECURSIVE AssetLoop(_, _, _, _, _, _)
AssetLoop(r, m, collapse_flag, capsule_flag, acc, k) ==
  IF k > Len(VisualList(r))
  THEN << [visual_data |-> acc.data, pose_data |-> acc.pose] >>
  ELSE LET step == VisualStep(r, m, collapse_flag, capsule_flag, acc, k)
       IN  IF step.ok
           THEN AssetLoop(r, m, collapse_flag, capsule_flag, step.acc, k + 1)
           ELSE << >>

\* The whole load as a function of the document and the flags.
LoadResult(r, collapse_flag, capsule_flag) ==
  LET m == CollapsePhase(r, collapse_flag)
  IN  IF m.ok THEN AssetLoop(r, m, collapse_flag, capsule_flag, InitAcc, 1) ELSE << >>

----------------------------------------------------------------------------
\* The documents a load is run on.

JointOrigin(j) == << Gen("joint", j, 0) >>

\* joint_map for a parent assignment and a type assignment; joint j's child
\* is link j and its origin is a transform of its own.
JointMap(par, ty) ==
  [j \in Joints |-> [parent |-> par[j], child |-> j, type |-> ty[j], origin |-> JointOrigin(j)]]

\* Every parent assignment: trees, cycles and dangling parents.
Parents == {par \in [Joints -> Links \cup {NoLink}] : \A j \in Joints : par[j] # j}
Types == [Joints -> {"fixed", "revolute"}]
Perms == {p \in [1..NumJoints -> Joints] : \A i, j \in 1..NumJoints : p[i] = p[j] => i = j}
Identity == [i \in 1..NumJoints |-> i]
Reverse == [i \in 1..NumJoints |-> NumJoints + 1 - i]

Chain == [j \in Joints |-> j - 1]

Primitive(kind) == [kind |-> kind, ext |-> "", scene |-> FALSE, graph |-> << >>]
Mesh(ext, scene, graph) == [kind |-> "mesh", ext |-> ext, scene |-> scene, graph |-> graph]
NodePose(i) == << Gen("node", i, 0) >>
\* Scene graphs of n named sub-meshes, each with a local transform of its
\* own; in MixedGraph the first one's is the identity.
GenericGraph(n) == [i \in 1..n |-> NodePose(i)]
MixedGraph(n) == [i \in 1..n |-> IF i = 1 THEN eye ELSE NodePose(i)]

\* A visual: its geometry and whether it has an <origin> element.
Shape(geom, has_origin) == [geometry |-> geom, has_origin |-> has_origin]

VisualShapes ==
  {Shape(Primitive("sphere"), FALSE), Shape(Primitive("box"), TRUE),
   Shape(Primitive("cylinder"), FALSE), Shape(Primitive("cylinder"), TRUE),
   Shape(Primitive("unknown"), TRUE),
   Shape(Mesh("obj", FALSE, << >>), TRUE), Shape(Mesh("stl", FALSE, << >>), TRUE),
   Shape(Mesh("dae", FALSE, << >>), TRUE), Shape(Mesh("ply", FALSE, << >>), TRUE),
   Shape(Mesh("glb", TRUE, GenericGraph(0)), TRUE)}
    \cup {Shape(Mesh(ext, TRUE, graph), TRUE) :
            ext \in {"obj", "dae", "glb"},
            graph \in {GenericGraph(MaxSub), MixedGraph(MaxSub)}}

VisualOrigin(k) == << Gen("visual", k, 0) >>
MkVisual(shape, k) ==
  [geometry |-> shape.geometry, origin |-> IF shape.has_origin THEN VisualOrigin(k) ELSE None]

\* link_map with the visuals vs[1..n] placed on the links pl[1..n].
LinkMap(n, pl, vs) ==
  [l \in Links |->
     LET idxs == SelectSeq([i \in 1..n |-> i], LAMBDA i : pl[i] = l)
     IN  [j \in 1..Len(idxs) |-> MkVisual(vs[idxs[j]], idxs[j])]]

LinkMaps(shapes) ==
  UNION {{LinkMap(n, pl, vs) :
            pl \in {q \in [1..n -> Links] : \A i \in 1..n : i < n => q[i] <= q[i + 1]},
            vs \in [1..n -> shapes]} : n \in 0..MaxVisuals}

Document(par, ty, order, lm) ==
  [base_link |-> 0, joint_map |-> JointMap(par, ty), joint_names |-> order, link_map |-> lm]

----------------------------------------------------------------------------
\* The load as a state machine: one step per loop iteration.

VARIABLES
  document,                      \* the document at urdf_path
  collapse_fixed_joints,
  replace_cylinder_with_capsule,
  robot,                         \* urdf.URDF.load(urdf_path)
  pc,
  link_root_map,
  link_pose_map,
  _link_cache,
  _joint_unsorted,
  _joint_sorted,
  scan_i,                        \* position of the for loop over _joint_unsorted
  progress,                      \* history: the current pass appended a joint
  build_i,                       \* position of the for loop over _joint_sorted
  link_mesh_count,
  offline_data_dict,
  offline_pose_dict,
  vis_k,                         \* position in the iteration over the visuals
  emitted,                       \* history: entries packed per meshcat link name
  resource                       \* the returned AssetResource, if any

vars ==
  << document, collapse_fixed_joints, replace_cylinder_with_capsule, robot, pc,
     link_root_map, link_pose_map, _link_cache, _joint_unsorted, _joint_sorted,
     scan_i, progress, build_i, link_mesh_count, offline_data_dict,
     offline_pose_dict, vis_k, emitted, resource >>

inputs == << document, collapse_fixed_joints, replace_cylinder_with_capsule >>
sort_vars == << _link_cache, _joint_unsorted, _joint_sorted, scan_i, progress >>
map_vars == << link_root_map, link_pose_map >>
asset_vars == << link_mesh_count, offline_data_dict, offline_pose_dict, vis_k, emitted >>

\* Before urdf.URDF.load returned.
NoRobot == [base_link |-> NoLink, joint_map |-> << >>, joint_names |-> << >>, link_map |-> << >>]

InitLocals ==
  /\ robot = NoRobot
  /\ pc = "start"
  /\ link_root_map = EmptyMap
  /\ link_pose_map = EmptyMap
  /\ _link_cache = << >>
  /\ _joint_unsorted = << >>
  /\ _joint_sorted = << >>
  /\ scan_i = 0
  /\ progress = FALSE
  /\ build_i = 0
  /\ link_mesh_count = EmptyMap
  /\ offline_data_dict = EmptyMap
  /\ offline_pose_dict = EmptyMap
  /\ vis_k = 0
  /\ emitted = [l \in Links |-> 0]
  /\ resource = << >>

\* Every joint graph, listed forwards or backwards (any listing of a graph
\* is the forward listing of a renumbered one); the base link carries a box
\* and the last link a sphere.
PlainLinkMap ==
  [l \in Links |->
     IF l = 0 THEN << MkVisual(Shape(Primitive("box"), TRUE), 1) >>
     ELSE IF l = NumJoints THEN << MkVisual(Shape(Primitive("sphere"), TRUE), 2) >>
     ELSE << >>]

Init ==
  /\ document \in {Document(par, ty, order, PlainLinkMap) :
                     par \in Parents, ty \in Types, order \in {Identity, Reverse}}
  /\ collapse_fixed_joints \in BOOLEAN
  /\ replace_cylinder_with_capsule = FALSE
  /\ InitLocals

\* Joint typings of the chain: all fixed, all movable, and the two alternations.
ChainTypes ==
  {[j \in Joints |-> "fixed"], [j \in Joints |-> "revolute"],
   [j \in Joints |-> IF j % 2 = 1 THEN "fixed" ELSE "revolute"],
   [j \in Joints |-> IF j % 2 = 0 THEN "fixed" ELSE "revolute"]}

\* The chain under these typings, with every placement of up to MaxVisuals
\* visuals of every shape.
InitAssets ==
  /\ document \in {Document(par, ty, Identity, lm) :
                     par \in {Chain}, ty \in ChainTypes, lm \in LinkMaps(VisualShapes)}
  /\ collapse_fixed_joints \in BOOLEAN
  /\ replace_cylinder_with_capsule \in BOOLEAN
  /\ InitLocals

\* One shape per number of packed entries (none, one, MaxSub), a cylinder
\* with an origin of its own, and a shape that makes the load raise.
CoreShapes ==
  {Shape(Primitive("sphere"), FALSE), Shape(Primitive("cylinder"), TRUE),
   Shape(Primitive("unknown"), TRUE), Shape(Mesh("glb", TRUE, GenericGraph(0)), TRUE),
   Shape(Mesh("obj", TRUE, GenericGraph(MaxSub)), TRUE)}

\* The chain under the same typings, with every placement of up to
\* MaxVisuals visuals of the core shapes.
InitCore ==
  /\ document \in {Document(par, ty, Identity, lm) :
                     par \in {Chain}, ty \in ChainTypes, lm \in LinkMaps(CoreShapes)}
  /\ collapse_fixed_joints \in BOOLEAN
  /\ replace_cylinder_with_capsule \in BOOLEAN
  /\ InitLocals

\* Lines 20-34.
Load ==
  /\ pc = "start"
  /\ robot' = document
  /\ link_root_map' = InitMaps(document).root
  /\ link_pose_map' = InitMaps(document).pose
  /\ IF collapse_fixed_joints
     THEN /\ _link_cache' = InitSort(document).cache
          /\ _joint_unsorted' = document.joint_names
          /\ _joint_sorted' = InitSort(document).sorted
          /\ pc' = "sort_while"
          /\ vis_k' = vis_k
     ELSE /\ UNCHANGED << _link_cache, _joint_unsorted, _joint_sorted >>
          /\ pc' = "visuals"
          /\ vis_k' = 1
  /\ UNCHANGED << inputs, scan_i, progress, build_i, link_mesh_count,
                  offline_data_dict, offline_pose_dict, emitted, resource >>

\* Line 35: the loop condition; a pass starts, or the build loop does.
SortWhile ==
  /\ pc = "sort_while"
  /\ IF Len(_joint_sorted) < Len(_joint_unsorted)
     THEN /\ pc' = "sort_for"
          /\ scan_i' = 1
          /\ progress' = FALSE
          /\ UNCHANGED build_i
     ELSE /\ pc' = "build"
          /\ build_i' = 1
          /\ UNCHANGED << scan_i, progress >>
  /\ UNCHANGED << inputs, robot, map_vars, _link_cache, _joint_unsorted,
                  _joint_sorted, asset_vars, resource >>

\* Lines 36-41: one joint of the pass, or the end of the pass.
SortFor ==
  /\ pc = "sort_for"
  /\ IF scan_i > Len(_joint_unsorted)
     THEN /\ pc' = "sort_while"
          /\ UNCHANGED << _link_cache, _joint_sorted, scan_i, progress >>
     ELSE LET st == ScanJoint(robot, [cache |-> _link_cache, sorted |-> _joint_sorted],
                              _joint_unsorted[scan_i])
          IN  /\ _link_cache' = st.cache
              /\ _joint_sorted' = st.sorted
              /\ progress' = (progress \/ Len(st.sorted) > Len(_joint_sorted))
              /\ scan_i' = scan_i + 1
              /\ pc' = pc
  /\ UNCHANGED << inputs, robot, map_vars, _joint_unsorted, build_i, asset_vars, resource >>

\* Lines 44-55: one joint of the build loop, or its end.
Build ==
  /\ pc = "build"
  /\ IF build_i > Len(_joint_sorted)
     THEN /\ pc' = "visuals"
          /\ vis_k' = 1
          /\ UNCHANGED << map_vars, build_i >>
     ELSE LET m == BuildJoint(robot, [root |-> link_root_map, pose |-> link_pose_map, ok |-> TRUE],
                              _joint_sorted[build_i])
          IN  /\ link_root_map' = m.root
              /\ link_pose_map' = m.pose
              /\ build_i' = build_i + 1
              /\ pc' = IF m.ok THEN pc ELSE "error"
              /\ vis_k' = vis_k
  /\ UNCHANGED << inputs, robot, sort_vars, link_mesh_count, offline_data_dict,
                  offline_pose_dict, emitted, resource >>

CurLink == VisualList(robot)[vis_k][1]
CurVisual == robot.link_map[CurLink][VisualList(robot)[vis_k][2]]
CurMaps == [root |-> link_root_map, pose |-> link_pose_map, ok |-> TRUE]
CurAcc == [count |-> link_mesh_count, data |-> offline_data_dict, pose |-> offline_pose_dict]

\* Lines 59-170: one visual.
ProcessVisual ==
  /\ pc = "visuals"
  /\ vis_k <= Len(VisualList(robot))
  /\ LET step == VisualStep(robot, CurMaps, collapse_fixed_joints,
                            replace_cylinder_with_capsule, CurAcc, vis_k)
     IN  /\ robot' = [robot EXCEPT !.link_map[CurLink][VisualList(robot)[vis_k][2]].origin = step.origin]
         /\ link_mesh_count' = step.acc.count
         /\ offline_data_dict' = step.acc.data
         /\ offline_pose_dict' = step.acc.pose
         /\ emitted' = [emitted EXCEPT ![step.name] = @ + step.n]
         /\ vis_k' = IF step.ok THEN vis_k + 1 ELSE vis_k
         /\ pc' = IF step.ok THEN pc ELSE "error"
  /\ UNCHANGED << inputs, map_vars, sort_vars, build_i, resource >>

\* Lines 172-177.
Return ==
  /\ pc = "visuals"
  /\ vis_k > Len(VisualList(robot))
  /\ resource' = << [visual_data |-> offline_data_dict, pose_data |-> offline_pose_dict] >>
  /\ pc' = "done"
  /\ UNCHANGED << inputs, robot, map_vars, sort_vars, build_i, asset_vars >>

Next == Load \/ SortWhile \/ SortFor \/ Build \/ ProcessVisual \/ Return

Spec == Init /\ [][Next]_vars
SpecAssets == InitAssets /\ [][Next]_vars
SpecCore == InitCore /\ [][Next]_vars

----------------------------------------------------------------------------
\* What the claims speak of.

\* The links resolvable from the base link through joints.
RECURSIVE ResolvableWithin(_, _, _)
ResolvableWithin(r, S, n) ==
  IF n = 0
  THEN S
  ELSE ResolvableWithin(r, S \cup {r.joint_map[j].child : j \in {i \in Joints : r.joint_map[i].parent \in S}}, n - 1)

Resolvable(r) == ResolvableWithin(r, {r.base_link}, NumJoints)

\* Every joint's parent is the base link or the child of a resolvable joint.
WellFormed(r) == \A j \in Joints : r.joint_map[j].parent \in Resolvable(r)

\* The document with its joints listed in the order p.
Relisted(r, p) == [r EXCEPT !.joint_names = p]

\* The document with every joint's type replaced by a non-fixed one.
AllMovable(r) == [r EXCEPT !.joint_map = [j \in Joints |-> [r.joint_map[j] EXCEPT !.type = "revolute"]]]

\* The joint whose child is link x (x is not the base link).
JointInto(r, x) == r.joint_map[CHOOSE j \in Joints : r.joint_map[j].child = x]

\* a is x, or an ancestor of x joined to it by at most n joints, all fixed.
RECURSIVE FixedPath(_, _, _, _)
FixedPath(r, a, x, n) ==
  \/ a = x
  \/ /\ n > 0
     /\ x # r.base_link
     /\ JointInto(r, x).type = "fixed"
     /\ FixedPath(r, a, JointInto(r, x).parent, n - 1)

\* The ordered product of the joint origins on the fixed-joint path that ends
\* in link x, the factor nearest the root on the left.
RECURSIVE PathPose(_, _)
PathPose(r, x) ==
  IF x = r.base_link \/ JointInto(r, x).type # "fixed"
  THEN eye
  ELSE MatMul(PathPose(r, JointInto(r, x).parent), JointInto(r, x).origin)

Collapsed == collapse_fixed_joints /\ pc \in {"visuals", "done"}
\* The collapse phase has just ended.
CollapseEnded == collapse_fixed_joints /\ pc = "visuals" /\ vis_k = 1

\* C1: on a malformed tree the joint-ordering loop notices a full pass that
\* resolved no joint and the load ends in the error state (the statement of
\* the claim; the loop of lines 35-41 starts the next pass instead).
C1_StuckPassAborts ==
  [][(pc = "sort_for" /\ scan_i > Len(_joint_unsorted) /\ ~progress) => pc' = "error"]_vars

\* C2: for a well-formed tree, link_root_map and link_pose_map after the
\* collapse phase are those of the collapse phase run on the same document
\* with its joints listed in any other order.
C2_OrderIndependence ==
  (CollapseEnded /\ WellFormed(robot)) =>
    \A p \in Perms :
      /\ CollapsePhase(Relisted(document, p), TRUE).root = link_root_map
      /\ CollapsePhase(Relisted(document, p), TRUE).pose = link_pose_map

\* C2 witness: a finished collapse of a tree with a fixed joint below a
\* joint, listed child before parent.
C2_Witness ==
  /\ CollapseEnded
  /\ WellFormed(robot)
  /\ robot.joint_names = Reverse
  /\ \E j \in Joints : robot.joint_map[j].type = "fixed" /\ robot.joint_map[j].parent > j

\* C4: after the collapse of a well-formed tree link_root_map is defined on
\* every link, the base link is its own root, the child of a fixed joint has
\* its parent's root and the child of any other joint is its own root.
C4_RootMap ==
  (Collapsed /\ WellFormed(robot)) =>
    /\ DOMAIN link_root_map = Links
    /\ link_root_map[robot.base_link] = robot.base_link
    /\ \A j \in Joints :
         LET joint_info == robot.joint_map[j]
         IN  IF joint_info.type = "fixed"
             THEN link_root_map[joint_info.child] = link_root_map[joint_info.parent]
             ELSE link_root_map[joint_info.child] = joint_info.child

\* C4 witness: scenario A, base -fixed-> 1 -fixed-> 2 -movable-> 3.
C4_Witness ==
  /\ Collapsed
  /\ \A j \in Joints : robot.joint_map[j].parent = j - 1
  /\ robot.joint_map[1].type = "fixed"
  /\ robot.joint_map[2].type = "fixed"
  /\ \A j \in Joints : j > 2 => robot.joint_map[j].type = "revolute"
  /\ link_root_map[1] = 0 /\ link_root_map[2] = 0
  /\ \A j \in Joints : j > 2 => link_root_map[j] = j

\* C5: in every state, every link x of link_root_map has a root that is in
\* the map, is its own root, and is x or an ancestor of x joined to x by
\* fixed joints only.
C5_RootInvariant ==
  \A x \in DOMAIN link_root_map :
    /\ link_root_map[x] \in DOMAIN link_root_map
    /\ link_root_map[link_root_map[x]] = link_root_map[x]
    /\ FixedPath(robot, link_root_map[x], x, NumJoints)

\* C5 witness: the build loop is under way and a link two fixed joints below
\* its root is already mapped.
C5_Witness ==
  /\ pc = "build"
  /\ build_i <= Len(_joint_sorted)
  /\ \E x \in DOMAIN link_root_map :
       /\ x # robot.base_link
       /\ JointInto(robot, x).type = "fixed"
       /\ JointInto(robot, x).parent # link_root_map[x]

\* C6: after the collapse of a well-formed tree, every link's pose is the
\* ordered product of the joint origins on the fixed-joint path from its
\* root: the identity for a link that is its own root, the parent's pose
\* times the joint origin below a fixed joint.
C6_PoseMap ==
  (Collapsed /\ WellFormed(robot)) =>
    /\ DOMAIN link_pose_map = Links
    /\ \A x \in Links : link_pose_map[x] = PathPose(robot, x)
    /\ \A x \in Links : link_root_map[x] = x => link_pose_map[x] = eye
    /\ \A j \in Joints :
         robot.joint_map[j].type = "fixed" =>
           link_pose_map[j] = MatMul(link_pose_map[robot.joint_map[j].parent], robot.joint_map[j].origin)

\* C6 witness: a link whose pose is the product of two joint origins, below a
\* movable joint whose origin is in no pose.
C6_Witness ==
  /\ Collapsed
  /\ WellFormed(robot)
  /\ \E x \in Links : Len(link_pose_map[x]) = 2 /\ link_root_map[x] # robot.base_link

\* _joint_sorted lists every joint once, each after the joint into its parent.
SortedParentFirst ==
  /\ Len(_joint_sorted) = NumJoints
  /\ SeqToSet(_joint_sorted) = Joints
  /\ \A i \in 1..Len(_joint_sorted) :
       LET parent == robot.joint_map[_joint_sorted[i]].parent
       IN  \/ parent = robot.base_link
           \/ \E k \in 1..(i - 1) : robot.joint_map[_joint_sorted[k]].child = parent

\* C10: for a well-formed tree in any listing the joint-ordering loop ends;
\* _joint_sorted is then a permutation of the joints with every joint after
\* the joint into its parent, and the build loop's assertion never fails.
C10_SortTerminates ==
  /\ (pc = "start" /\ collapse_fixed_joints /\ WellFormed(document)) ~> (pc = "build")
  /\ [](pc = "build" => SortedParentFirst)
  /\ [][pc = "build" => pc' # "error"]_vars

\* C10 witness: the build loop processes a fixed joint of a tree that took
\* more than one pass to order.
C10_Witness ==
  /\ pc = "build"
  /\ build_i <= Len(_joint_sorted)
  /\ robot.joint_map[_joint_sorted[build_i]].type = "fixed"
  /\ _joint_sorted # _joint_unsorted

\* The keys 0..n-1 under every meshcat link name, n its number of packed entries.
ContiguousKeys == UNION {{AssetKey(l, k) : k \in 0..(emitted[l] - 1)} : l \in Links}

RECURSIVE SumEmitted(_)
SumEmitted(l) == IF l > NumJoints THEN 0 ELSE emitted[l] + SumEmitted(l + 1)

\* C3: in every state the keys packed under one canonical link are exactly
\* 0..n-1, n the number of entries packed for it, so no key was written
\* twice and visual_data has as many entries as were packed.
C3_IndexContiguity ==
  /\ DOMAIN offline_data_dict = ContiguousKeys
  /\ DOMAIN offline_pose_dict = ContiguousKeys
  /\ Cardinality(DOMAIN offline_data_dict) = SumEmitted(0)

\* C3 witness: a finished load in which two links fold into one canonical
\* link that holds three or more entries.
C3_Witness ==
  /\ pc = "done"
  /\ collapse_fixed_joints
  /\ \E l \in Links :
       /\ emitted[l] >= 3
       /\ \E a, b \in Links :
            /\ a # b
            /\ Len(robot.link_map[a]) = 1 /\ Len(robot.link_map[b]) = 1
            /\ link_root_map[a] = l /\ link_root_map[b] = l

\* C7: a load without collapsing returns what the collapsing load of the
\* same document with every joint made movable returns (the resource, or
\* none if it raises), whose maps are root[x] = x and pose[x] = identity.
C7_DisabledIsAllMovable ==
  (pc \in {"done", "error"} /\ ~collapse_fixed_joints /\ WellFormed(document)) =>
    /\ resource = LoadResult(AllMovable(document), TRUE, replace_cylinder_with_capsule)
    /\ CollapsePhase(AllMovable(document), TRUE).root = [x \in Links |-> x]
    /\ CollapsePhase(AllMovable(document), TRUE).pose = [x \in Links |-> eye]

\* C7 witness: a load without collapsing has returned entries of a link below
\* a fixed joint, one of them a cylinder with an origin of its own.
C7_Witness ==
  /\ pc = "done"
  /\ ~collapse_fixed_joints
  /\ \E l \in Joints :
       /\ document.joint_map[l].type = "fixed"
       /\ Len(document.link_map[l]) = MaxVisuals
       /\ document.link_map[l][1].geometry.kind = "cylinder"
       /\ document.link_map[l][1].origin # None
       /\ AssetKey(l, MaxVisuals - 1) \in DOMAIN resource[1].pose_data

\* C8: the pose stored for each sub-mesh of a multi-geometry mesh file (obj
\* scene, dae, glb) is the link pose (identity when not collapsing) times the
\* visual's origin times the sub-mesh's own local transform (the statement of
\* the claim; line 113 stores the visual-level pose for dae).
C8_SubMeshPose ==
  [][(/\ pc = "visuals"
      /\ vis_k <= Len(VisualList(robot))
      /\ vis_k' = vis_k + 1
      /\ CurVisual.geometry.kind = "mesh"
      /\ CurVisual.geometry.scene
      /\ CurVisual.geometry.ext \in {"obj", "dae", "glb"})
     =>
     LET name == IF collapse_fixed_joints THEN link_root_map[CurLink] ELSE CurLink
         first == IF name \in DOMAIN link_mesh_count THEN link_mesh_count[name] + 1 ELSE 0
         link_pose == IF collapse_fixed_joints THEN link_pose_map[CurLink] ELSE eye
         graph == CurVisual.geometry.graph
     IN  \A i \in 1..Len(graph) :
           offline_pose_dict'[AssetKey(name, first + i - 1)]
             = MatMul(MatMul(link_pose, VisualPose0(CurVisual)), graph[i])]_vars

\* C9: processing a visual changes neither link_root_map, link_pose_map nor
\* anything of the parsed document, visual origins included (the statement
\* of the claim; lines 139 and 142 write through visual_pose into
\* visual.origin when it was not rebound at line 77).
C9_InputsUnchanged ==
  [][pc = "visuals" =>
       /\ robot' = robot
       /\ link_root_map' = link_root_map
       /\ link_pose_map' = link_pose_map]_vars

\* The collapsing loads of the well-formed trees, with the collapse phase run
\* to its end: a load is one synchronous call, no step of which waits for
\* anything.
InitWellFormed == Init /\ collapse_fixed_joints /\ WellFormed(document)
FairSpec ==
  /\ InitWellFormed
  /\ [][Next]_vars
  /\ WF_vars(Load) /\ WF_vars(SortWhile) /\ WF_vars(SortFor) /\ WF_vars(Build)

====
